---- MODULE Spec2Model ----
(***************************************************************************)
(* Model of the spreadsheet-backed record store of the workout tracker     *)
(* (src/main.py).  A worksheet is a grid: a sequence of rows, row 1 being  *)
(* the header that get_all_records() uses as keys.  A cell is a text: a     *)
(* sequence of one-character strings, so that parsing, formatting,         *)
(* splitting and trimming are computed as the code computes them.          *)
(* Every session is one browser session of the script: each script run     *)
(* calls load_data() first and then at most one button handler.            *)
(* st.cache_data belongs to the server process.  Each session is served by *)
(* a process of its own (the app started on two machines against one       *)
(* spreadsheet), so each has its cache entry; for two sessions of one      *)
(* process the entry stands for the frames load_data() returned to the     *)
(* session's run in progress, which a clear() by the other session does    *)
(* not take back.                                                          *)
(***************************************************************************)
EXTENDS Integers, Sequences, FiniteSets, TLC

VARIABLES
    log,        \* grid of the "Training Log" worksheet
    master,     \* grid of the "Exercise Master" worksheet
    templates,  \* [exists, grid] of the "Template Master" worksheet
    cache,      \* per session: the st.cache_data entry of load_data, or NoCache
    pc,         \* per session: position of the script run
    outcome,    \* per session: how the last handler ended
    h,          \* per session: the running handler's locals
    hist,       \* history of the store, kept for the properties only
    ops         \* per session: the handlers it has run, where that is bounded

vars == <<log, master, templates, cache, pc, outcome, h, hist, ops>>

(***************************************************************************)
(* Bounds of the model.                                                    *)
(***************************************************************************)
MaxLogRows == 3      \* grid rows of the Training Log an append may grow to
MaxId == 3           \* largest id Add Log is let to allocate
MaxTemplates == 2    \* data rows of Template Master an append may grow to
MaxTemplateNo == 2   \* largest number Save Template is let to put in a template id
MaxOps == 2          \* handlers a session runs where two sessions are interleaved
MaxIdsInList == 2    \* exercise ids in a list given to the template codec
MaxWeight == 3       \* largest weight of a logged set
MaxReps == 3         \* largest repetition count of a logged set
MaxNewTemplateNo == 1000   \* largest template number where the numbering itself is checked
MaxIdLen == 4        \* characters of a string given to normalize_id

Sessions == {"A", "B"}

(***************************************************************************)
(* Texts.                                                                  *)
(***************************************************************************)
Digits == <<"0", "1", "2", "3", "4", "5", "6", "7", "8", "9">>

DigitSet == {Digits[i] : i \in 1..10}

DigitVal(c) == (CHOOSE i \in 1..10 : Digits[i] = c) - 1

IsDigits(s) == Len(s) > 0 /\ \A i \in 1..Len(s) : s[i] \in DigitSet

RECURSIVE ParseInt(_)
ParseInt(s) ==
    IF s = <<>> THEN 0
    ELSE ParseInt(SubSeq(s, 1, Len(s) - 1)) * 10 + DigitVal(s[Len(s)])

RECURSIVE IntToStr(_)
IntToStr(n) ==
    IF n < 10 THEN <<Digits[n + 1]>>
    ELSE IntToStr(n \div 10) \o <<Digits[(n % 10) + 1]>>

Range(s) == {s[i] : i \in 1..Len(s)}

IndexOf(s, x) == CHOOSE i \in 1..Len(s) : s[i] = x /\ \A j \in 1..(i - 1) : s[j] # x

RECURSIVE SelectRows(_, _)
SelectRows(rows, keep) ==
    IF rows = <<>> THEN <<>>
    ELSE (IF Head(rows) \in keep THEN <<Head(rows)>> ELSE <<>>)
         \o SelectRows(Tail(rows), keep)

\* The value the script holds when a selectbox has nothing to offer.
None == <<"None">>

(***************************************************************************)
(* Column names and the fixed headers.                                     *)
(***************************************************************************)
ID == <<"I", "D">>
Date == <<"D", "a", "t", "e">>
ExerciseID == <<"E", "x", "e", "r", "c", "i", "s", "e", "I", "D">>
Target == <<"T", "a", "r", "g", "e", "t">>
Exercise == <<"E", "x", "e", "r", "c", "i", "s", "e">>
SetNo == <<"S", "e", "t", " ", "#">>
Weight == <<"W", "e", "i", "g", "h", "t">>
Unit == <<"U", "n", "i", "t">>
Reps == <<"R", "e", "p", "s">>
RPE == <<"R", "P", "E">>
SetType == <<"S", "e", "t", " ", "T", "y", "p", "e">>
Memo == <<"M", "e", "m", "o">>

LogHeaders == <<ID, Date, ExerciseID, Target, Exercise, SetNo, Weight, Unit, Reps, RPE, SetType, Memo>>

exercise_id == <<"e", "x", "e", "r", "c", "i", "s", "e", "_", "i", "d">>
exercise_name == <<"e", "x", "e", "r", "c", "i", "s", "e", "_", "n", "a", "m", "e">>
target_muscle_group == <<"t", "a", "r", "g", "e", "t", "_", "m", "u", "s", "c", "l", "e", "_", "g", "r", "o", "u", "p">>
description == <<"d", "e", "s", "c", "r", "i", "p", "t", "i", "o", "n">>

sub_muscle_group == <<"s", "u", "b", "_", "m", "u", "s", "c", "l", "e", "_", "g", "r", "o", "u", "p">>
equipment_type == <<"e", "q", "u", "i", "p", "m", "e", "n", "t", "_", "t", "y", "p", "e">>
exercise_category == <<"e", "x", "e", "r", "c", "i", "s", "e", "_", "c", "a", "t", "e", "g", "o", "r", "y">>

MasterHeaders ==
    <<exercise_id, exercise_name, target_muscle_group, sub_muscle_group,
      equipment_type, exercise_category, description>>

template_id == <<"t", "e", "m", "p", "l", "a", "t", "e", "_", "i", "d">>
template_name == <<"t", "e", "m", "p", "l", "a", "t", "e", "_", "n", "a", "m", "e">>
exercise_ids == <<"e", "x", "e", "r", "c", "i", "s", "e", "_", "i", "d", "s">>
created_at == <<"c", "r", "e", "a", "t", "e", "d", "_", "a", "t">>

TemplateHeaders == <<template_id, template_name, exercise_ids, created_at>>

(***************************************************************************)
(* Data frames: pd.DataFrame(ws.get_all_records()).                        *)
(***************************************************************************)
EmptyDF == [columns |-> <<>>, rows |-> <<>>]

\* get_all_records(): row 1 is the header; no data rows gives [], and
\* pd.DataFrame([]) has no columns.
DataFrame(grid) ==
    IF Len(grid) <= 1 THEN EmptyDF
    ELSE [columns |-> grid[1], rows |-> Tail(grid)]

empty(d) == d.rows = <<>> \/ d.columns = <<>>

HasCol(d, c) == c \in Range(d.columns)

Cell(d, r, c) == r[IndexOf(d.columns, c)]

\* pd.to_numeric(errors='coerce').fillna(0).astype(int) of one cell.
to_numeric(cell) == IF IsDigits(cell) THEN ParseInt(cell) ELSE 0

\* df['ID'] = pd.to_numeric(df['ID'], errors='coerce').fillna(0).astype(int)
coerce_ID(d) ==
    IF ~HasCol(d, ID) THEN d
    ELSE LET k == IndexOf(d.columns, ID)
         IN [d EXCEPT !.rows =
                [i \in 1..Len(d.rows) |->
                    [d.rows[i] EXCEPT ![k] = IntToStr(to_numeric(d.rows[i][k]))]]]

Column(d, c) == [i \in 1..Len(d.rows) |-> Cell(d, d.rows[i], c)]

\* get_all_records() raises when the header row holds the same key twice.
HeaderUnique(grid) ==
    \A i, j \in 1..Len(grid[1]) : grid[1][i] = grid[1][j] => i = j

Readable(grid) == IF Len(grid) = 0 THEN TRUE ELSE HeaderUnique(grid)

(***************************************************************************)
(* Template codec and exercise lookup.                                     *)
(***************************************************************************)
RECURSIVE split(_, _)
split(s, delim) ==
    IF delim \notin Range(s) THEN <<s>>
    ELSE LET k == IndexOf(s, delim)
         IN <<SubSeq(s, 1, k - 1)>> \o split(SubSeq(s, k + 1, Len(s)), delim)

RECURSIVE strip(_)
strip(s) ==
    IF s = <<>> THEN s
    ELSE IF Head(s) = " " THEN strip(Tail(s))
    ELSE IF s[Len(s)] = " " THEN strip(SubSeq(s, 1, Len(s) - 1))
    ELSE s

endswith(s, suffix) ==
    Len(s) >= Len(suffix) /\ SubSeq(s, Len(s) - Len(suffix) + 1, Len(s)) = suffix

normalize_id(val) ==
    LET s == strip(val)
    IN IF endswith(s, <<".", "0">>) THEN SubSeq(s, 1, Len(s) - 2) ELSE s

\* A split that knows the legacy delimiter only.
split_ids_comma_only(raw_ids) ==
    IF raw_ids # <<>> THEN split(raw_ids, ",") ELSE <<>>

\* lines 157-159: raw_ids.split(delim) if raw_ids else []
split_ids(raw_ids) ==
    LET delim == IF "|" \in Range(raw_ids) THEN "|" ELSE ","
    IN IF raw_ids # <<>> THEN split(raw_ids, delim) ELSE <<>>

\* The ids a stored exercise_ids cell stands for: split at lines 157-159,
\* each part normalized where it is looked up (lines 200, 709).
decode(raw_ids) ==
    [i \in 1..Len(split_ids(raw_ids)) |-> normalize_id(split_ids(raw_ids)[i])]

\* template_map[tname]: the split exercise_ids cell of the last row named tname.
template_map(d, tname) ==
    LET hits == {i \in 1..Len(d.rows) : Cell(d, d.rows[i], template_name) = tname}
        last == CHOOSE i \in hits : \A j \in hits : j <= i
        raw_ids == IF HasCol(d, exercise_ids)
                   THEN Cell(d, d.rows[last], exercise_ids) ELSE <<>>
    IN split_ids(raw_ids)

\* The names offered by the "Use Template" selectbox.
template_options(d) ==
    IF ~empty(d) /\ HasCol(d, template_name)
    THEN {Cell(d, d.rows[i], template_name) : i \in 1..Len(d.rows)} \ {<<>>}
    ELSE {}

\* exercise_map: exercise_name -> its row of df_master.
exercise_options(d) == {Cell(d, d.rows[i], exercise_name) : i \in 1..Len(d.rows)}

exercise_map(d, name) ==
    d.rows[CHOOSE i \in 1..Len(d.rows) : Cell(d, d.rows[i], exercise_name) = name]

ex_get(d, name, col) ==
    IF name \in exercise_options(d) /\ HasCol(d, col)
    THEN Cell(d, exercise_map(d, name), col) ELSE <<>>

\* The first exercise of exercise_map whose normalized id is the normalized eid.
RECURSIVE template_exercise_names(_, _)
template_exercise_names(d, ids) ==
    IF ids = <<>> THEN <<>>
    ELSE LET eid_str == normalize_id(Head(ids))
             hits == {i \in 1..Len(d.rows) :
                        normalize_id(ex_get(d, Cell(d, d.rows[i], exercise_name), exercise_id))
                            = eid_str}
             first == CHOOSE i \in hits : \A j \in hits : i <= j
         IN (IF hits = {} THEN <<>>
             ELSE <<Cell(d, d.rows[first], exercise_name)>>)
            \o template_exercise_names(d, Tail(ids))

\* What selected_exercise can be, given the template option (None: "Select
\* from Exercises").
selected_exercise(snap, topt) ==
    LET ids == IF topt = None THEN <<>> ELSE template_map(snap.templates, topt)
        names == template_exercise_names(snap.master, ids)
    IN IF topt # None /\ ids # <<>>
       THEN (IF names # <<>> THEN Range(names) ELSE {None})
       ELSE exercise_options(snap.master)

(***************************************************************************)
(* The data the model starts from and the inputs of the forms.             *)
(***************************************************************************)
Today == <<"2", "0", "2", "6", "/", "0", "1", "/", "0", "1">>

ExerciseRow(eid, name, group, desc) == <<eid, name, group, <<>>, <<>>, <<>>, desc>>

BenchPress == <<"B", "P">>
Squat == <<"S", "Q">>

InitMaster ==
    <<MasterHeaders,
      ExerciseRow(<<"1">>, BenchPress, <<"C", "h", "e", "s", "t">>, <<>>),
      ExerciseRow(<<"2">>, Squat, <<"L", "e", "g", "s">>, <<>>)>>

\* The row dictionary Add Log builds (lines 297-310) for the form's values.
LogRowDict(start_id, ex_id, target_muscle, sel) ==
    [c \in Range(LogHeaders) |->
        CASE c = ID -> IntToStr(start_id)
          [] c = Date -> Today
          [] c = ExerciseID -> ex_id
          [] c = Target -> target_muscle
          [] c = Exercise -> (IF sel = None THEN <<>> ELSE sel)
          [] c = SetNo -> <<"1">>
          [] c = Weight -> <<"5">>
          [] c = Unit -> <<"k", "g">>
          [] c = Reps -> <<"5">>
          [] OTHER -> <<>>]

\* row_vals = [row_dict.get(h, "") for h in headers]
row_vals(row_dict, headers) ==
    [i \in 1..Len(headers) |->
        IF headers[i] \in DOMAIN row_dict THEN row_dict[headers[i]] ELSE <<>>]

InitLog ==
    <<LogHeaders,
      row_vals(LogRowDict(1, <<"1">>, <<"C", "h", "e", "s", "t">>, BenchPress), LogHeaders)>>

(***************************************************************************)
(* Session state.                                                          *)
(***************************************************************************)
EmptySnap == [log |-> EmptyDF, master |-> EmptyDF, templates |-> EmptyDF]

NoCache == [valid |-> FALSE, data |-> EmptySnap]

\* Of the handler's locals, view and grid0 are kept for the properties only:
\* the ids the session's frame showed, and the handler's sheet as it was in
\* the store at the handler's first call on it.
NoHandler ==
    [op |-> "none", ids |-> {}, tids |-> {}, cur |-> EmptyDF, sel |-> <<>>,
     row |-> <<>>, view |-> {}, grid0 |-> <<>>]

\* The ids Add Log has assigned so far: none.
NoHist == [assigned |-> {}]

Init ==
    /\ log = InitLog
    /\ master = InitMaster
    /\ templates = [exists |-> FALSE, grid |-> <<>>]
    /\ cache = [s \in Sessions |-> NoCache]
    /\ pc = [s \in Sessions |-> "idle"]
    /\ outcome = [s \in Sessions |-> "none"]
    /\ h = [s \in Sessions |-> NoHandler]
    /\ hist = NoHist
    /\ ops = [s \in Sessions |-> 0]

(***************************************************************************)
(* load_data (lines 75-116) and the checks that st.stop() the run          *)
(* (lines 120-144).                                                        *)
(***************************************************************************)
\* A load that reads the missing sheet as an empty one, without the columns.
load_data_no_columns ==
    [log |-> coerce_ID(DataFrame(log)),
     master |-> DataFrame(master),
     templates |-> DataFrame(templates.grid)]

\* What a cache miss reads from the store.
load_data ==
    [log |-> coerce_ID(DataFrame(log)),
     master |-> DataFrame(master),
     templates |-> IF templates.exists THEN DataFrame(templates.grid)
                   ELSE [columns |-> TemplateHeaders, rows |-> <<>>]]

\* df_log, df_master, df_templates of a run of session s: what load_data()
\* returns to it.  A run that presses a button finds the entry of the run
\* that drew the button (or a later one) in the cache.
df(s) == cache[s].data

\* The run gets past the st.stop() of lines 120-144.
Running(s) ==
    /\ pc[s] = "idle"
    /\ cache[s].valid
    /\ ~empty(df(s).master)
    /\ HasCol(df(s).master, exercise_name)

StartRun(s) ==
    /\ pc[s] = "idle"
    /\ outcome' = [outcome EXCEPT ![s] = "none"]
    /\ h' = [h EXCEPT ![s] = NoHandler]
    /\ UNCHANGED pc

\* A run whose load_data() is answered from the cache (ttl not yet over).
LoadCached(s) ==
    /\ cache[s].valid
    /\ StartRun(s)
    /\ UNCHANGED <<log, master, templates, cache>>

\* A run whose load_data() reads the store, creating Template Master when
\* it is not there.
LoadFresh(s) ==
    /\ ~cache[s].valid
    /\ Readable(log) /\ Readable(master) /\ Readable(templates.grid)
    /\ templates' = IF templates.exists THEN templates
                    ELSE [exists |-> TRUE, grid |-> <<TemplateHeaders>>]
    /\ cache' = [cache EXCEPT ![s] = [valid |-> TRUE, data |-> load_data]]
    /\ StartRun(s)
    /\ UNCHANGED <<log, master>>

\* A store call of load_data() raises: the four empty frames are returned
\* (and cached), and the run stops at line 123.
LoadFail(s) ==
    /\ ~cache[s].valid
    /\ cache' = [cache EXCEPT ![s] = [valid |-> TRUE, data |-> EmptySnap]]
    /\ StartRun(s)
    /\ UNCHANGED <<log, master, templates>>

\* add_worksheet() succeeds and the append_row() of the header raises.
LoadFailCreate(s) ==
    /\ ~cache[s].valid
    /\ ~templates.exists
    /\ templates' = [exists |-> TRUE, grid |-> <<>>]
    /\ cache' = [cache EXCEPT ![s] = [valid |-> TRUE, data |-> EmptySnap]]
    /\ StartRun(s)
    /\ UNCHANGED <<log, master>>

\* The cache entry is older than ttl=5 seconds.
CacheExpire(s) ==
    /\ cache[s].valid
    /\ cache' = [cache EXCEPT ![s] = NoCache]
    /\ UNCHANGED <<log, master, templates, pc, outcome, h>>

EndHandler(s, how, locals) ==
    /\ pc' = [pc EXCEPT ![s] = "idle"]
    /\ outcome' = [outcome EXCEPT ![s] = how]
    /\ h' = [h EXCEPT ![s] = locals]

\* A handler that forgets st.cache_data.clear().
cache_clear_forgotten(s) == cache

\* st.cache_data.clear()
cache_clear(s) == [cache EXCEPT ![s] = NoCache]

(***************************************************************************)
(* Add Log (lines 283-348).                                                *)
(***************************************************************************)
MaxOf(S) == CHOOSE m \in S : \A x \in S : x <= m

\* An allocation that counts the rows instead of taking the largest ID.
start_id_counts_rows(df_log) == Len(df_log.rows) + 1

\* lines 289-293
start_id(df_log) ==
    IF empty(df_log) THEN 1
    ELSE MaxOf({to_numeric(Cell(df_log, df_log.rows[i], ID)) : i \in 1..Len(df_log.rows)}) + 1

\* An append that always orders the values by the loaded frame's columns.
append_headers_loaded(df_log) == df_log.columns

\* lines 325-329
append_headers(df_log) == IF ~empty(df_log) THEN df_log.columns ELSE LogHeaders

AddLogRow(snap, sel) ==
    LogRowDict(start_id(snap.log),
               ex_get(snap.master, sel, exercise_id),
               ex_get(snap.master, sel, target_muscle_group),
               sel)

TemplateChoices(snap) == {None} \cup template_options(snap.templates)

\* Line 293 reads df_log['ID'] outside the try block: the handler goes on when
\* the frame is empty or has the column.
AddLog(s) ==
    /\ Running(s)
    /\ empty(df(s).log) \/ HasCol(df(s).log, ID)
    /\ start_id(df(s).log) <= MaxId
    /\ Len(log) < MaxLogRows
    /\ \E topt \in TemplateChoices(df(s)) : \E sel \in selected_exercise(df(s), topt) :
         LET row_dict == AddLogRow(df(s), sel)
             vals == row_vals(row_dict, append_headers(df(s).log))
         IN /\ log' = Append(log, vals)
            /\ cache' = cache_clear(s)
            /\ EndHandler(s, "success",
                          [NoHandler EXCEPT !.op = "add", !.sel = sel, !.row = vals,
                                            !.grid0 = log])
    /\ UNCHANGED <<master, templates>>

\* sh.worksheet() or append_rows() raises: st.error, nothing else.
AddLogFail(s) ==
    /\ Running(s)
    /\ empty(df(s).log) \/ HasCol(df(s).log, ID)
    /\ EndHandler(s, "error", [NoHandler EXCEPT !.op = "add"])
    /\ UNCHANGED <<log, master, templates, cache>>

(***************************************************************************)
(* Delete Selected Rows (lines 588-629).                                   *)
(***************************************************************************)
\* Tab 1 reads these columns of a non-empty df_log before tab 2 is drawn.
Tab1Columns == {Date, Weight, Reps, Exercise, SetNo, RPE, Memo}

TabsRender(snap) == empty(snap.log) \/ Tab1Columns \subseteq Range(snap.log.columns)

\* The ids of the rows the date tables of tab 2 show.
DisplayedIds(df_log) ==
    {to_numeric(Cell(df_log, df_log.rows[i], ID)) :
        i \in {j \in 1..Len(df_log.rows) : Cell(df_log, df_log.rows[j], Date) = Today}}

HistoryShown(s) ==
    /\ Running(s)
    /\ ~empty(df(s).log) /\ TabsRender(df(s)) /\ HasCol(df(s).log, ID)
    /\ DisplayedIds(df(s).log) # {}

\* A delete that drops rows by their position instead of by their ID.
df_remaining_by_position(df_current, ids_to_delete) ==
    LET keep == {i \in 1..Len(df_current.rows) : i \notin ids_to_delete}
    IN [i \in 1..Cardinality(keep) |->
          df_current.rows[CHOOSE k \in keep : Cardinality({j \in keep : j < k}) = i - 1]]

\* line 611: the rows of df_current whose ID is not in ids_to_delete
df_remaining(df_current, ids_to_delete) ==
    LET keep == {i \in 1..Len(df_current.rows) :
                    to_numeric(Cell(df_current, df_current.rows[i], ID)) \notin ids_to_delete}
    IN [i \in 1..Cardinality(keep) |->
          df_current.rows[CHOOSE k \in keep : Cardinality({j \in keep : j < k}) = i - 1]]

\* lines 616-620
update_data(df_current, ids_to_delete) ==
    <<IF ~empty(df_current) THEN df_current.columns ELSE LogHeaders>>
        \o df_remaining(df_current, ids_to_delete)

\* ws.update(range_name='A1', values=...): the cells of the range are
\* overwritten, rows below it are left as they are.
update(grid, values) == values \o SubSeq(grid, Len(values) + 1, Len(grid))

\* lines 604-609: the frame of a grid read inside the delete
read_current(grid) == coerce_ID(DataFrame(grid))

\* A delete that filters the frame the session loaded earlier.
df_current_stale(s) == df(s).log

\* lines 603-609: the snapshot the delete works on
df_current_log(s) == read_current(log)

\* The ids the Training Log holds in the store, read as the code reads them.
StoredIds(grid) ==
    LET d == DataFrame(grid)
    IN IF HasCol(d, ID)
       THEN {to_numeric(Cell(d, d.rows[i], ID)) : i \in 1..Len(d.rows)}
       ELSE {}

\* A delete with no emptiness check: the rewrite goes on with no id to drop.
DeleteNone_proceeds(s) ==
    /\ HistoryShown(s)
    /\ cache' = cache_clear(s)
    /\ EndHandler(s, "success", [NoHandler EXCEPT !.op = "del"])
    /\ UNCHANGED <<log, master, templates>>

\* lines 597-598
DeleteNone(s) ==
    /\ HistoryShown(s)
    /\ EndHandler(s, "warning", [NoHandler EXCEPT !.op = "del"])
    /\ UNCHANGED <<log, master, templates, cache>>

\* lines 601-611, up to the KeyError of line 611 when the fresh frame has no ID
DeleteRead(s) ==
    /\ HistoryShown(s)
    /\ Readable(log)
    /\ \E ids \in SUBSET DisplayedIds(df(s).log) :
         /\ ids # {}
         /\ LET cur == df_current_log(s)
                locals == [NoHandler EXCEPT !.op = "del", !.ids = ids, !.cur = cur,
                                            !.view = StoredIds(<<df(s).log.columns>> \o df(s).log.rows),
                                            !.grid0 = log]
            IN IF HasCol(cur, ID)
               THEN /\ pc' = [pc EXCEPT ![s] = "del_clear"]
                    /\ h' = [h EXCEPT ![s] = locals]
                    /\ outcome' = [outcome EXCEPT ![s] = "none"]
               ELSE EndHandler(s, "error", locals)
    /\ UNCHANGED <<log, master, templates, cache>>

DeleteReadFail(s) ==
    /\ HistoryShown(s)
    /\ \E ids \in SUBSET DisplayedIds(df(s).log) :
         /\ ids # {}
         /\ EndHandler(s, "error", [NoHandler EXCEPT !.op = "del", !.ids = ids])
    /\ UNCHANGED <<log, master, templates, cache>>

\* A clear() that removes only the rows the delete has read.
DeleteClear_read_rows_only(s) ==
    /\ pc[s] = "del_clear"
    /\ log' = SubSeq(log, Len(h[s].grid0) + 1, Len(log))
    /\ pc' = [pc EXCEPT ![s] = "del_write"]
    /\ UNCHANGED <<master, templates, cache, outcome, h>>

\* line 614
DeleteClear(s) ==
    /\ pc[s] = "del_clear"
    /\ log' = <<>>
    /\ pc' = [pc EXCEPT ![s] = "del_write"]
    /\ UNCHANGED <<master, templates, cache, outcome, h>>

\* lines 616-626
DeleteWrite(s) ==
    /\ pc[s] = "del_write"
    /\ log' = update(log, update_data(h[s].cur, h[s].ids))
    /\ cache' = cache_clear(s)
    /\ EndHandler(s, "success", h[s])
    /\ UNCHANGED <<master, templates>>

\* A clear() or update() outside the try block: the exception leaves the handler.
DeleteFail_uncaught(s) ==
    /\ pc[s] \in {"del_clear", "del_write"}
    /\ EndHandler(s, "uncaught", h[s])
    /\ UNCHANGED <<log, master, templates, cache>>

\* An except block that writes the frame read at the start back to the sheet.
DeleteFail_restores(s) ==
    /\ pc[s] \in {"del_clear", "del_write"}
    /\ log' = h[s].grid0
    /\ EndHandler(s, "error", h[s])
    /\ UNCHANGED <<master, templates, cache>>

\* clear() or update() raises: st.error, the sheet stays as the failed call left it
DeleteFail(s) ==
    /\ pc[s] \in {"del_clear", "del_write"}
    /\ EndHandler(s, "error", h[s])
    /\ UNCHANGED <<log, master, templates, cache>>

(***************************************************************************)
(* The remote sheet edited by hand: the first two columns of Training Log  *)
(* are swapped, header and data alike.                                     *)
(***************************************************************************)
SwapFirstTwo(r) == <<r[2], r[1]>> \o SubSeq(r, 3, Len(r))

ReorderHeader ==
    /\ Len(log) >= 1
    /\ log[1] = LogHeaders
    /\ log' = [i \in 1..Len(log) |-> SwapFirstTwo(log[i])]
    /\ UNCHANGED <<master, templates, cache, pc, outcome, h>>

(***************************************************************************)
(* Derived columns of tab 1 (lines 359-368).  Weights are whole numbers;   *)
(* a weight in kg is kept in millionths of a kg, and an estimated 1RM in   *)
(* thirtieths of a millionth of a kg, so that both are computed exactly.   *)
(***************************************************************************)
KgPerLbMicro == 453592     \* 0.453592, in millionths
RepsDivisor == 30          \* 30.0

UpperCase == <<"A", "B", "C", "D", "E", "F", "G", "H", "I", "J", "K", "L", "M",
               "N", "O", "P", "Q", "R", "S", "T", "U", "V", "W", "X", "Y", "Z">>
LowerCase == <<"a", "b", "c", "d", "e", "f", "g", "h", "i", "j", "k", "l", "m",
               "n", "o", "p", "q", "r", "s", "t", "u", "v", "w", "x", "y", "z">>

\* A comparison of the unit as it is written.
lower_forgotten(s) == s

\* str.lower()
lower(s) ==
    [i \in 1..Len(s) |->
        IF s[i] \in Range(UpperCase) THEN LowerCase[IndexOf(UpperCase, s[i])] ELSE s[i]]

\* pd.to_numeric(errors='coerce').fillna(0), of a cell holding a whole number
to_number(cell) == IF IsDigits(cell) THEN ParseInt(cell) ELSE 0

\* lines 364-367: df_log['Weight (kg)'], in millionths of a kg
Weight_kg(d, r) ==
    IF lower(IF HasCol(d, Unit) THEN Cell(d, r, Unit) ELSE <<>>) = <<"l", "b", "s">>
    THEN to_number(Cell(d, r, Weight)) * KgPerLbMicro
    ELSE to_number(Cell(d, r, Weight)) * 1000000

\* line 368: df_log['Estimated 1RM (kg)'], in thirtieths of a millionth of a kg
Estimated_1RM(d, r) == Weight_kg(d, r) * (RepsDivisor + to_number(Cell(d, r, Reps)))

\* The two derived columns, row by row.
DerivedColumns(d) ==
    [i \in 1..Len(d.rows) |->
        [weight_kg |-> Weight_kg(d, d.rows[i]), est_1rm |-> Estimated_1RM(d, d.rows[i])]]

\* Tab 1 is drawn for a non-empty df_log: the derived columns are computed.
Tab1Derive(s) ==
    /\ Running(s)
    /\ ~empty(df(s).log) /\ TabsRender(df(s))
    /\ EndHandler(s, "shown", [NoHandler EXCEPT !.op = "derive",
                                                !.row = DerivedColumns(df(s).log)])
    /\ UNCHANGED <<log, master, templates, cache>>

(***************************************************************************)
(* Save Description (lines 454-477).                                       *)
(***************************************************************************)
NewDescription == <<"n", "o", "t", "e">>

\* The exercises tab 1 can chart: named in df_log, with a dated row.
ChartExercises(snap) ==
    IF empty(snap.log) \/ ~TabsRender(snap) THEN {}
    ELSE {Cell(snap.log, snap.log.rows[i], Exercise) :
            i \in {j \in 1..Len(snap.log.rows) :
                     Cell(snap.log, snap.log.rows[j], Date) = Today}} \ {<<>>}

\* line 455-457: mask.any(), and the description column line 458 reads
DescriptionShown(s) ==
    /\ Running(s)
    /\ HasCol(df(s).master, description)
    /\ ChartExercises(df(s)) \cap exercise_options(df(s).master) # {}

\* line 465: df_master.at[original_idx, 'description'] = new_desc
set_description(df_master, name, new_desc) ==
    LET original_idx == CHOOSE i \in 1..Len(df_master.rows) :
                            /\ Cell(df_master, df_master.rows[i], exercise_name) = name
                            /\ \A j \in 1..(i - 1) :
                                  Cell(df_master, df_master.rows[j], exercise_name) # name
        k == IndexOf(df_master.columns, description)
    IN [df_master EXCEPT !.rows[original_idx][k] = new_desc]

\* lines 467-469
data_to_write(d) == <<d.columns>> \o d.rows

\* The frame Save Description edits and writes back (line 465).
df_master_to_save(s) == df(s).master

\* lines 465-470
DescriptionClear(s) ==
    /\ DescriptionShown(s)
    /\ \E name \in ChartExercises(df(s)) \cap exercise_options(df(s).master) :
         /\ h' = [h EXCEPT ![s] =
                    [NoHandler EXCEPT !.op = "desc", !.sel = name,
                        !.cur = set_description(df_master_to_save(s), name, NewDescription),
                        !.grid0 = master]]
    /\ master' = <<>>
    /\ pc' = [pc EXCEPT ![s] = "desc_write"]
    /\ outcome' = [outcome EXCEPT ![s] = "none"]
    /\ UNCHANGED <<log, templates, cache>>

\* lines 471-475
DescriptionWrite(s) ==
    /\ pc[s] = "desc_write"
    /\ master' = update(master, data_to_write(h[s].cur))
    /\ cache' = cache_clear(s)
    /\ EndHandler(s, "success", h[s])
    /\ UNCHANGED <<log, templates>>

\* sh.worksheet(), clear() or update() raises (line 476).
DescriptionFail(s) ==
    /\ DescriptionShown(s) \/ pc[s] = "desc_write"
    /\ EndHandler(s, "error", [h[s] EXCEPT !.op = "desc"])
    /\ UNCHANGED <<log, master, templates, cache>>

(***************************************************************************)
(* Save Template (lines 651-688).                                          *)
(***************************************************************************)
TMP == <<"T", "M", "P">>

NewTemplateName == <<"P", "u", "s", "h">>

\* str.replace("TMP", "")
RECURSIVE remove_TMP(_)
remove_TMP(s) ==
    IF Len(s) < 3 THEN s
    ELSE IF SubSeq(s, 1, 3) = TMP THEN remove_TMP(SubSeq(s, 4, Len(s)))
    ELSE <<Head(s)>> \o remove_TMP(Tail(s))

\* f"{num:03d}"
zero_pad3(n) ==
    LET t == IntToStr(n)
    IN IF Len(t) >= 3 THEN t ELSE [i \in 1..(3 - Len(t)) |-> "0"] \o t

\* An allocation that numbers the new template by the count of loaded rows.
new_tid_counts_rows(df_templates) ==
    TMP \o zero_pad3(Len(df_templates.rows) + 1)

\* lines 663-671; a numeric cell is read as a number, which has no replace()
new_tid(df_templates) ==
    IF empty(df_templates) THEN TMP \o <<"0", "0", "1">>
    ELSE LET last_id == Cell(df_templates, df_templates.rows[Len(df_templates.rows)], template_id)
         IN IF ~IsDigits(last_id) /\ IsDigits(remove_TMP(last_id))
            THEN TMP \o zero_pad3(ParseInt(remove_TMP(last_id)) + 1)
            ELSE TMP \o zero_pad3(Len(df_templates.rows) + 1)

RECURSIVE join(_, _)
join(parts, sep) ==
    IF parts = <<>> THEN <<>>
    ELSE IF Len(parts) = 1 THEN parts[1]
    ELSE parts[1] \o <<sep>> \o join(Tail(parts), sep)

\* lines 659-660, of the exercise_id values of the exercises selected
encode(ids) == join([i \in 1..Len(ids) |-> normalize_id(ids[i])], "|")

\* lines 659-660
ex_ids_str(df_master, selected) ==
    encode([i \in 1..Len(selected) |-> ex_get(df_master, selected[i], exercise_id)])

\* The multiselect's ordered, non-empty choices of up to two exercises.
TemplateSelections(df_master) ==
    {<<e>> : e \in exercise_options(df_master)}
        \cup {p \in exercise_options(df_master) \X exercise_options(df_master) :
                p[1] # p[2]}

TemplatesTab(s) == Running(s) /\ TabsRender(df(s))

\* lines 651-686, for template numbers up to cap
SaveTemplateUpTo(s, cap) ==
    /\ TemplatesTab(s)
    /\ empty(df(s).templates) \/ HasCol(df(s).templates, template_id)
    /\ Len(templates.grid) <= MaxTemplates
    /\ ParseInt(SubSeq(new_tid(df(s).templates), 4, Len(new_tid(df(s).templates)))) <= cap
    /\ \E selected \in TemplateSelections(df(s).master) :
         LET new_template_row == <<new_tid(df(s).templates), NewTemplateName,
                                   ex_ids_str(df(s).master, selected), Today>>
         IN /\ templates' = [templates EXCEPT !.grid = Append(@, new_template_row)]
            /\ EndHandler(s, "success",
                          [NoHandler EXCEPT !.op = "tmpl", !.row = new_template_row])
    /\ cache' = cache_clear(s)
    /\ UNCHANGED <<log, master>>

SaveTemplate(s) == SaveTemplateUpTo(s, MaxTemplateNo)

\* df_templates['template_id'] (line 666), sh.worksheet() or append_row() raises.
SaveTemplateFail(s) ==
    /\ TemplatesTab(s)
    /\ EndHandler(s, "error", [NoHandler EXCEPT !.op = "tmpl"])
    /\ UNCHANGED <<log, master, templates, cache>>

(***************************************************************************)
(* Delete Selected Templates (lines 734-753).                              *)
(***************************************************************************)
TemplatesShown(s) ==
    /\ TemplatesTab(s)
    /\ ~empty(df(s).templates)
    /\ HasCol(df(s).templates, template_id)

TemplateIds(d) == {Cell(d, d.rows[i], template_id) : i \in 1..Len(d.rows)}

\* The frame Delete Selected Templates filters and writes back (line 741).
df_templates_to_filter(s) == df(s).templates

\* line 741
df_remaining_templates(df_templates, ids_to_del) ==
    LET keep == {i \in 1..Len(df_templates.rows) :
                    Cell(df_templates, df_templates.rows[i], template_id) \notin ids_to_del}
    IN [i \in 1..Cardinality(keep) |->
          df_templates.rows[CHOOSE k \in keep : Cardinality({j \in keep : j < k}) = i - 1]]

\* lines 736-737
DeleteTemplatesNone(s) ==
    /\ TemplatesShown(s)
    /\ EndHandler(s, "warning", [NoHandler EXCEPT !.op = "tdel"])
    /\ UNCHANGED <<log, master, templates, cache>>

\* lines 740-743
DeleteTemplatesClear(s) ==
    /\ TemplatesShown(s)
    /\ \E ids_to_del \in SUBSET TemplateIds(df(s).templates) :
         /\ ids_to_del # {}
         /\ h' = [h EXCEPT ![s] =
                    [NoHandler EXCEPT !.op = "tdel", !.tids = ids_to_del,
                                      !.cur = df_templates_to_filter(s),
                                      !.grid0 = templates.grid]]
    /\ templates' = [templates EXCEPT !.grid = <<>>]
    /\ pc' = [pc EXCEPT ![s] = "tdel_write"]
    /\ outcome' = [outcome EXCEPT ![s] = "none"]
    /\ UNCHANGED <<log, master, cache>>

\* lines 744-751
DeleteTemplatesWrite(s) ==
    /\ pc[s] = "tdel_write"
    /\ templates' = [templates EXCEPT !.grid =
                        update(@, <<h[s].cur.columns>>
                                    \o df_remaining_templates(h[s].cur, h[s].tids))]
    /\ cache' = cache_clear(s)
    /\ EndHandler(s, "success", h[s])
    /\ UNCHANGED <<log, master>>

\* sh.worksheet(), clear() or update() raises (line 752).
DeleteTemplatesFail(s) ==
    /\ \/ /\ TemplatesShown(s)
          /\ \E ids_to_del \in SUBSET TemplateIds(df(s).templates) :
               /\ ids_to_del # {}
               /\ EndHandler(s, "error", [NoHandler EXCEPT !.op = "tdel", !.tids = ids_to_del])
       \/ /\ pc[s] = "tdel_write"
          /\ EndHandler(s, "error", h[s])
    /\ UNCHANGED <<log, master, templates, cache>>

(***************************************************************************)
(* The remote sheet edited by hand: the last exercise is taken out of      *)
(* Exercise Master.                                                        *)
(***************************************************************************)
RemoveExercise ==
    /\ Len(master) = Len(InitMaster)
    /\ master' = SubSeq(master, 1, Len(master) - 1)
    /\ UNCHANGED <<log, templates, cache, pc, outcome, h>>

(***************************************************************************)
(* History kept for the properties: the ids Add Log has assigned.          *)
(***************************************************************************)
Assigns(s) == hist' = [hist EXCEPT !.assigned = @ \cup {start_id(df(s).log)}]

\* A step of one session alone, which counts no handlers.
Solo(A) == A /\ UNCHANGED <<hist, ops>>

\* A step of one of two interleaved sessions; a step that starts a handler
\* is counted.
Counted(s, A) ==
    /\ ops[s] < MaxOps
    /\ A
    /\ ops' = [ops EXCEPT ![s] = @ + 1]
    /\ UNCHANGED hist

(***************************************************************************)
(* One session working on the Training Log, every store call able to fail, *)
(* and the header reordered by hand.                                       *)
(***************************************************************************)
LogNext ==
    \/ Solo(LoadCached("A"))
    \/ Solo(LoadFresh("A"))
    \/ Solo(LoadFail("A"))
    \/ Solo(LoadFailCreate("A"))
    \/ Solo(CacheExpire("A"))
    \/ AddLog("A") /\ Assigns("A") /\ UNCHANGED ops
    \/ Solo(AddLogFail("A"))
    \/ Solo(DeleteNone("A"))
    \/ Solo(DeleteRead("A"))
    \/ Solo(DeleteReadFail("A"))
    \/ Solo(DeleteClear("A"))
    \/ Solo(DeleteWrite("A"))
    \/ Solo(DeleteFail("A"))
    \/ Solo(ReorderHeader)

SpecLog == Init /\ [][LogNext]_vars

(***************************************************************************)
(* Two sessions working on the Training Log; store calls succeed, and      *)
(* every set logged is of the first exercise.                              *)
(***************************************************************************)
LogDuoNext ==
    \/ \E s \in Sessions : Solo(LoadCached(s))
    \/ \E s \in Sessions : Solo(LoadFresh(s))
    \/ \E s \in Sessions : Solo(CacheExpire(s))
    \/ \E s \in Sessions : Counted(s, AddLog(s) /\ h'[s].sel = BenchPress)
    \/ \E s \in Sessions : Counted(s, DeleteRead(s))
    \/ \E s \in Sessions : Solo(DeleteClear(s))
    \/ \E s \in Sessions : Solo(DeleteWrite(s))

SpecLogDuo == Init /\ [][LogDuoNext]_vars

(***************************************************************************)
(* Two sessions working on Template Master; store calls succeed, and       *)
(* every template saved holds the first exercise alone.                    *)
(***************************************************************************)
TemplatesDuoNext ==
    \/ \E s \in Sessions : Solo(LoadCached(s))
    \/ \E s \in Sessions : Solo(LoadFresh(s))
    \/ \E s \in Sessions : Solo(CacheExpire(s))
    \/ \E s \in Sessions : Counted(s, SaveTemplate(s) /\ h'[s].row[3] = <<"1">>)
    \/ \E s \in Sessions : Counted(s, DeleteTemplatesClear(s))
    \/ \E s \in Sessions : Solo(DeleteTemplatesWrite(s))

SpecTemplatesDuo == Init /\ [][TemplatesDuoNext]_vars

(***************************************************************************)
(* Two sessions working on Exercise Master; store calls succeed.           *)
(***************************************************************************)
MasterDuoNext ==
    \/ \E s \in Sessions : Solo(LoadCached(s))
    \/ \E s \in Sessions : Solo(LoadFresh(s))
    \/ \E s \in Sessions : Solo(CacheExpire(s))
    \/ \E s \in Sessions : Counted(s, DescriptionClear(s))
    \/ \E s \in Sessions : Solo(DescriptionWrite(s))


(***************************************************************************)
(* One session logging sets from templates while exercises are taken out   *)
(* of Exercise Master by hand.                                             *)
(***************************************************************************)
SelectNext ==
    \/ Solo(LoadCached("A"))
    \/ Solo(LoadFresh("A"))
    \/ Solo(CacheExpire("A"))
    \/ Solo(SaveTemplate("A"))
    \/ Solo(AddLog("A"))
    \/ Solo(RemoveExercise)

SpecSelect == Init /\ [][SelectNext]_vars

(***************************************************************************)
(* One session running all five mutations, every store call able to fail.  *)
(***************************************************************************)
Next ==
    \/ Solo(LoadCached("A"))
    \/ Solo(LoadFresh("A"))
    \/ Solo(LoadFail("A"))
    \/ Solo(CacheExpire("A"))
    \/ Solo(AddLog("A") /\ h'["A"].sel = BenchPress)
    \/ Solo(AddLogFail("A"))
    \/ Solo(DeleteNone("A"))
    \/ Solo(DeleteRead("A"))
    \/ Solo(DeleteReadFail("A"))
    \/ Solo(DeleteClear("A"))
    \/ Solo(DeleteWrite("A"))
    \/ Solo(DeleteFail("A"))
    \/ Solo(DescriptionClear("A"))
    \/ Solo(DescriptionWrite("A"))
    \/ Solo(DescriptionFail("A"))
    \/ Solo(SaveTemplate("A") /\ h'["A"].row[3] = <<"1">>)
    \/ Solo(SaveTemplateFail("A"))
    \/ Solo(DeleteTemplatesNone("A"))
    \/ Solo(DeleteTemplatesClear("A"))
    \/ Solo(DeleteTemplatesWrite("A"))
    \/ Solo(DeleteTemplatesFail("A"))

Spec == Init /\ [][Next]_vars

\* The script thread of a session runs a handler it has begun to its end:
\* to the next store call, to st.success or into the except block.
Continue(s) == pc[s] # "idle" /\ Next /\ pc'[s] # pc[s]

SpecFair == Spec /\ WF_vars(Continue("A"))

(***************************************************************************)
(* One session adding and deleting rows of Training Log, with the store    *)
(* calls of the delete failing and the header reordered by hand: the       *)
(* tables a delete can find.                                                *)
(***************************************************************************)
DeleteNext ==
    \/ Solo(LoadCached("A"))
    \/ Solo(LoadFresh("A"))
    \/ Solo(AddLog("A") /\ h'["A"].sel = BenchPress)
    \/ Solo(DeleteRead("A"))
    \/ Solo(DeleteClear("A"))
    \/ Solo(DeleteWrite("A"))
    \/ Solo(DeleteFail("A"))
    \/ Solo(ReorderHeader)

SpecDelete == Init /\ [][DeleteNext]_vars

(***************************************************************************)
(* Starting points of the two-session runs on Exercise Master: both        *)
(* exercises have a logged set, so that each has a description to edit.    *)
(***************************************************************************)
InitBothLogged ==
    /\ log = Append(InitLog,
                    row_vals(LogRowDict(2, <<"2">>, <<"L", "e", "g", "s">>, Squat), LogHeaders))
    /\ master = InitMaster
    /\ templates = [exists |-> FALSE, grid |-> <<>>]
    /\ cache = [s \in Sessions |-> NoCache]
    /\ pc = [s \in Sessions |-> "idle"]
    /\ outcome = [s \in Sessions |-> "none"]
    /\ h = [s \in Sessions |-> NoHandler]
    /\ hist = NoHist
    /\ ops = [s \in Sessions |-> 0]

SpecMasterDuo == InitBothLogged /\ [][MasterDuoNext]_vars

(***************************************************************************)
(* Properties.                                                             *)
(***************************************************************************)
\* C1: when Delete Selected Rows ends in success on a sheet nobody wrote to
\* since its clear(), every id the Training Log then holds was in the store
\* when the delete re-read it and is not one of the ids to delete: a row that
\* another session deleted after this session loaded its view is not written
\* back, and the rows to delete are gone.
C1_DeleteRewritesFreshSnapshot ==
    [][\A s \in Sessions :
          (pc[s] = "del_write" /\ outcome'[s] = "success" /\ log = <<>>)
              => StoredIds(log') \subseteq (StoredIds(h[s].grid0) \ h[s].ids)]_vars

\* C1 witness: a session has deleted with a stale view (its frame showed an
\* id the store no longer held at the re-read), and the table holds neither
\* that id nor the deleted ones.
C1_Witness ==
    \E s \in Sessions :
        /\ outcome[s] = "success" /\ h[s].op = "del"
        /\ h[s].view \ StoredIds(h[s].grid0) # {}
        /\ h[s].ids \cap StoredIds(h[s].grid0) # {}
        /\ StoredIds(log) \cap (h[s].view \ StoredIds(h[s].grid0)) = {}
        /\ StoredIds(log) \cap h[s].ids = {}

\* C2: no two rows of the Training Log carry the same ID.
C2_UniqueLogIds ==
    LET d == DataFrame(log)
    IN HasCol(d, ID) =>
          \A i, j \in 1..Len(d.rows) :
              Cell(d, d.rows[i], ID) = Cell(d, d.rows[j], ID) => i = j

\* C3: Add Log never assigns an id it has assigned before.
C3_IdNeverReused ==
    [][\A s \in Sessions :
          (outcome'[s] = "success" /\ h'[s].op = "add" /\ Len(log') = Len(log) + 1)
              => to_numeric(h'[s].row[IndexOf(append_headers(df(s).log), ID)])
                    \notin hist.assigned]_vars

\* C4: when Delete Selected Templates ends in success on a sheet nobody wrote
\* to since its clear(), every template row the store held when the delete
\* began, other than the deleted ones, is still in Template Master.
C4_TemplateDeleteKeepsOthers ==
    [][\A s \in Sessions :
          (pc[s] = "tdel_write" /\ outcome'[s] = "success" /\ templates.grid = <<>>)
              => LET d == DataFrame(h[s].grid0)
                 IN \A i \in 1..Len(d.rows) :
                       (HasCol(d, template_id)
                            /\ Cell(d, d.rows[i], template_id) \notin h[s].tids)
                          => d.rows[i] \in Range(templates'.grid)]_vars

\* C5: when Save Description ends in success on a sheet nobody wrote to since
\* its clear(), Exercise Master is what the store held when the save began,
\* but for the description cell of the exercise saved.
C5_DescriptionSaveKeepsOthers ==
    [][\A s \in Sessions :
          (pc[s] = "desc_write" /\ outcome'[s] = "success" /\ master = <<>>
                /\ Len(h[s].grid0) >= 2)
              => master' = data_to_write(
                    set_description(DataFrame(h[s].grid0), h[s].sel, NewDescription))]_vars

\* What Delete Selected Rows leaves of a grid when no store call fails and
\* no other writer comes between.
DeleteSelectedRowsOn(grid, ids_to_delete) ==
    IF ~Readable(grid) \/ ~HasCol(read_current(grid), ID) THEN grid
    ELSE update(<<>>, update_data(read_current(grid), ids_to_delete))

IdSets == (SUBSET (0..MaxId)) \ {{}}

\* C6: for the table the store holds and every non-empty id set, deleting
\* the set twice in a row leaves the table that deleting it once leaves.
C6_DeleteIdempotent ==
    \A ids \in IdSets :
        DeleteSelectedRowsOn(DeleteSelectedRowsOn(log, ids), ids)
            = DeleteSelectedRowsOn(log, ids)

\* C6 witness: the table is the one a successful delete has just written,
\* it still holds rows, and the delete took rows out.
C6_Witness ==
    \E s \in Sessions :
        /\ outcome[s] = "success" /\ h[s].op = "del"
        /\ log = DeleteSelectedRowsOn(h[s].grid0, h[s].ids)
        /\ Len(log) > 1
        /\ Len(log) < Len(h[s].grid0)

\* C7: after a mutation ended in the error state the session's cache entry
\* is invalid.
C7_ErrorInvalidatesCache ==
    \A s \in Sessions :
        (outcome[s] = "error" /\ h[s].op # "none") => ~cache[s].valid

\* C8: from the success of a mutation until the session's next load the
\* cache entry is invalid, so that load reads the store.
C8_SuccessClearsCache ==
    \A s \in Sessions : outcome[s] = "success" => ~cache[s].valid

\* C8 witness: the session has deleted a template with success, after
\* having saved it with success.
C8_Witness ==
    \E s \in Sessions : outcome[s] = "success" /\ h[s].op = "tdel" /\ ~cache[s].valid

\* C9: a row appended to a Training Log that holds rows has each value at
\* the position of its column in the header the store holds at the append.
C9_AppendFollowsLiveHeader ==
    [][\A s \in Sessions :
          (outcome'[s] = "success" /\ h'[s].op = "add" /\ Len(log') = Len(log) + 1
                /\ Len(log) >= 2)
              => log'[Len(log')] = row_vals(AddLogRow(df(s), h'[s].sel), log[1])]_vars

\* C10: every row Add Log appends is of an exercise of the loaded Exercise
\* Master: its ExerciseID, Target and Exercise are that record's id, muscle
\* group and name (so a selection that resolves to no exercise appends none).
C10_AppendedRowResolves ==
    [][\A s \in Sessions :
          (outcome'[s] = "success" /\ h'[s].op = "add" /\ Len(log') = Len(log) + 1)
              => LET m == df(s).master
                     r == AddLogRow(df(s), h'[s].sel)
                 IN \E i \in 1..Len(m.rows) :
                       /\ r[ExerciseID] = Cell(m, m.rows[i], exercise_id)
                       /\ r[Target] = Cell(m, m.rows[i], target_muscle_group)
                       /\ r[Exercise] = Cell(m, m.rows[i], exercise_name)]_vars

\* C11: a load that finds no Template Master and creates it (the sheet is
\* added and its header row written) leaves the sheet holding exactly the
\* header template_id, template_name, exercise_ids, created_at, returns a
\* template frame of those columns and no rows, and returns the Training Log
\* and Exercise Master frames as read from the store, which it leaves as
\* they were.
C11_MissingTemplateSheetCreated ==
    [][\A s \in Sessions :
          (~cache[s].valid /\ cache'[s].valid /\ ~templates.exists
                /\ templates'.exists /\ templates'.grid # <<>>)
              => /\ templates'.grid = <<TemplateHeaders>>
                 /\ cache'[s].data.templates = [columns |-> TemplateHeaders, rows |-> <<>>]
                 /\ cache'[s].data.log = coerce_ID(DataFrame(log))
                 /\ cache'[s].data.master = DataFrame(master)
                 /\ log' = log /\ master' = master]_vars

\* C11 witness: a session holds the frames of the load that created
\* Template Master, with the log and the exercises it read.
C11_Witness ==
    \E s \in Sessions :
        /\ cache[s].valid
        /\ templates.grid = <<TemplateHeaders>>
        /\ cache[s].data.templates = [columns |-> TemplateHeaders, rows |-> <<>>]
        /\ ~empty(cache[s].data.log) /\ ~empty(cache[s].data.master)

(***************************************************************************)
(* The template codec on its own: an ordered list of exercise ids is       *)
(* encoded into an exercise_ids cell and the cell decoded again.  The      *)
(* handler locals hold the list (row), the cell (sel) and the decoded      *)
(* list (grid0).                                                           *)
(***************************************************************************)


\* Exercise ids free of '|' and ',': plain, numeric with a ".0" artifact,
\* padded with blanks, and blank.
CodecIds ==
    {<<>>, <<"1">>, <<"2">>, <<"1", "0">>, <<"1", ".", "0">>, <<"2", ".", "0">>,
     <<" ", "1">>, <<"1", " ">>, <<"E", "1">>, <<".", "0">>, <<"0">>}

RECURSIVE IdLists(_)
IdLists(n) ==
    IF n = 0 THEN {<<>>}
    ELSE IdLists(n - 1)
            \cup {Append(l, x) : l \in {m \in IdLists(n - 1) : Len(m) = n - 1}, x \in CodecIds}

CodecInit ==
    /\ log = InitLog
    /\ master = InitMaster
    /\ templates = [exists |-> FALSE, grid |-> <<>>]
    /\ cache = [s \in Sessions |-> NoCache]
    /\ pc = [s \in Sessions |-> "idle"]
    /\ outcome = [s \in Sessions |-> "none"]
    /\ \E ids \in IdLists(MaxIdsInList) :
          h = [s \in Sessions |->
                 IF s = "A" THEN [NoHandler EXCEPT !.op = "codec", !.row = ids]
                 ELSE NoHandler]
    /\ hist = NoHist
    /\ ops = [s \in Sessions |-> 0]

Encode ==
    /\ pc["A"] = "idle" /\ outcome["A"] = "none" /\ h["A"].op = "codec"
    /\ h' = [h EXCEPT !["A"].sel = encode(h["A"].row)]
    /\ pc' = [pc EXCEPT !["A"] = "encoded"]
    /\ UNCHANGED <<log, master, templates, cache, outcome, hist, ops>>

Decode ==
    /\ pc["A"] = "encoded"
    /\ h' = [h EXCEPT !["A"].grid0 = decode(h["A"].sel)]
    /\ pc' = [pc EXCEPT !["A"] = "idle"]
    /\ outcome' = [outcome EXCEPT !["A"] = "success"]
    /\ UNCHANGED <<log, master, templates, cache, hist, ops>>

CodecNext == Encode \/ Decode

SpecCodec == CodecInit /\ [][CodecNext]_vars

Decoded == h["A"].op = "codec" /\ outcome["A"] = "success"

\* C12 as stated: for every ordered list of ids free of '|' and ',',
\* decoding the encoded list gives the list back.
C12_RoundTripAnyIds == Decoded => h["A"].grid0 = h["A"].row

\* C12: decoding the encoded list gives the list back, in order, for every
\* list of ids that normalize_id leaves as they are (no blanks around them,
\* no trailing ".0"), but for the list of one blank id; the empty list and
\* the one-element lists are among them.
C12_RoundTripNormalIds ==
    (Decoded /\ (\A i \in 1..Len(h["A"].row) : normalize_id(h["A"].row[i]) = h["A"].row[i])
             /\ h["A"].row # <<<<>>>>)
        => h["A"].grid0 = h["A"].row

\* C12 witness: a list of two different normal ids has come back in order.
C12_Witness ==
    /\ Decoded
    /\ Len(h["A"].row) = 2 /\ h["A"].row[1] # h["A"].row[2]
    /\ \A i \in 1..2 : normalize_id(h["A"].row[i]) = h["A"].row[i] /\ h["A"].row[i] # <<>>
    /\ h["A"].grid0 = h["A"].row

(***************************************************************************)
(* One logged set of any weight, unit and repetition count, loaded and     *)
(* shown on tab 1.                                                         *)
(***************************************************************************)
WeightCells == {IntToStr(w) : w \in 0..MaxWeight} \cup {<<"x">>}

RepsCells == {IntToStr(r) : r \in 0..MaxReps} \cup {<<>>}

UnitCells ==
    {<<"k", "g">>, <<"l", "b", "s">>, <<"L", "B", "S">>, <<"L", "b", "s">>,
     <<"l", "b">>, <<"l", "b", "s", " ">>, <<>>}

DeriveInit ==
    /\ \E w \in WeightCells, u \in UnitCells, r \in RepsCells :
          log = <<LogHeaders,
                  row_vals([LogRowDict(1, <<"1">>, <<"C", "h", "e", "s", "t">>, BenchPress)
                               EXCEPT ![Weight] = w, ![Unit] = u, ![Reps] = r],
                           LogHeaders)>>
    /\ master = InitMaster
    /\ templates = [exists |-> FALSE, grid |-> <<>>]
    /\ cache = [s \in Sessions |-> NoCache]
    /\ pc = [s \in Sessions |-> "idle"]
    /\ outcome = [s \in Sessions |-> "none"]
    /\ h = [s \in Sessions |-> NoHandler]
    /\ hist = NoHist
    /\ ops = [s \in Sessions |-> 0]

DeriveNext ==
    \/ Solo(LoadCached("A"))
    \/ Solo(LoadFresh("A"))
    \/ Solo(CacheExpire("A"))
    \/ Solo(Tab1Derive("A"))

SpecDerive == DeriveInit /\ [][DeriveNext]_vars

\* The set shown, as the store holds it, and its derived columns.
ShownSet == DataFrame(log).rows[1]
ShownWeight == to_number(ShownSet[IndexOf(log[1], Weight)])
ShownReps == to_number(ShownSet[IndexOf(log[1], Reps)])
ShownUnit == ShownSet[IndexOf(log[1], Unit)]
Shown == h["A"].op = "derive" /\ outcome["A"] = "shown"

\* C13: the estimated 1RM shown is weightKg * (1 + reps/30) when reps > 0
\* and 0 when reps = 0 (in thirtieths of a millionth of a kg).
C13_Estimated1RM ==
    Shown =>
        h["A"].row[1].est_1rm
            = IF ShownReps > 0 THEN h["A"].row[1].weight_kg * (30 + ShownReps) ELSE 0

\* The unit is 'lbs' but for the case of its letters.
IsLbs(u) ==
    /\ Len(u) = 3
    /\ u[1] \in {"l", "L"} /\ u[2] \in {"b", "B"} /\ u[3] \in {"s", "S"}

\* C14: the weightKg shown is weight * 0.453592 when the unit is 'lbs' in
\* any letter case and weight for every other unit (in millionths of a kg):
\* below the weight for a positive 'lbs' weight, the weight for 'kg'.
C14_WeightKg ==
    Shown =>
        /\ h["A"].row[1].weight_kg
              = IF IsLbs(ShownUnit) THEN ShownWeight * 453592 ELSE ShownWeight * 1000000
        /\ (ShownWeight > 0 /\ ShownUnit \in {<<"l", "b", "s">>, <<"L", "B", "S">>, <<"L", "b", "s">>})
              => h["A"].row[1].weight_kg < ShownWeight * 1000000
        /\ ShownUnit = <<"k", "g">> => h["A"].row[1].weight_kg = ShownWeight * 1000000

\* C14 witness: a positive weight in 'LBS' is shown, converted.
C14_Witness ==
    /\ Shown
    /\ ShownUnit = <<"L", "B", "S">> /\ ShownWeight > 0
    /\ h["A"].row[1].weight_kg = ShownWeight * 453592

(***************************************************************************)
(* One session adding to a Training Log whose ID cells are numbers, blank  *)
(* or garbage.                                                             *)
(***************************************************************************)
IdCells == {IntToStr(n) : n \in 0..(MaxId - 1)} \cup {<<"x">>, <<>>}

LoggedSet(id_cell) ==
    row_vals([LogRowDict(1, <<"1">>, <<"C", "h", "e", "s", "t">>, BenchPress)
                 EXCEPT ![ID] = id_cell],
             LogHeaders)

RECURSIVE LogsOf(_)
LogsOf(n) ==
    IF n = 0 THEN {<<LogHeaders>>}
    ELSE LogsOf(n - 1)
            \cup {Append(g, LoggedSet(c)) : g \in {m \in LogsOf(n - 1) : Len(m) = n}, c \in IdCells}

AllocInit ==
    /\ log \in LogsOf(MaxLogRows - 1) \cup {<<>>}
    /\ master = InitMaster
    /\ templates = [exists |-> FALSE, grid |-> <<>>]
    /\ cache = [s \in Sessions |-> NoCache]
    /\ pc = [s \in Sessions |-> "idle"]
    /\ outcome = [s \in Sessions |-> "none"]
    /\ h = [s \in Sessions |-> NoHandler]
    /\ hist = NoHist
    /\ ops = [s \in Sessions |-> 0]

AllocNext ==
    \/ Solo(LoadCached("A"))
    \/ Solo(LoadFresh("A"))
    \/ Solo(CacheExpire("A"))
    \/ Solo(AddLog("A"))

SpecAlloc == AllocInit /\ [][AllocNext]_vars

\* The id the rule gives for a sheet: 1 without data rows, else the largest
\* ID cell plus one, a cell that is no number counting as 0.
NextIdOf(grid) ==
    IF Len(grid) <= 1 THEN 1
    ELSE LET k == IndexOf(grid[1], ID)
             ids == {IF IsDigits(grid[i][k]) THEN ParseInt(grid[i][k]) ELSE 0 :
                        i \in 2..Len(grid)}
         IN (CHOOSE m \in ids : \A x \in ids : x <= m) + 1

\* C15: the id Add Log takes from a loaded snapshot is the rule's id for the
\* sheet loaded (1 without rows, else largest coerced ID cell plus one), and
\* the row a successful Add Log appended carries the rule's id for the sheet
\* it was appended to.
C15_NextIdFromSnapshot ==
    \A s \in Sessions :
        /\ (cache[s].valid /\ outcome[s] = "none")
              => start_id(df(s).log) = NextIdOf(log)
        /\ (outcome[s] = "success" /\ h[s].op = "add")
              => h[s].row[IndexOf(LogHeaders, ID)] = IntToStr(NextIdOf(h[s].grid0))

\* C15 witness: a row was appended with ID 1 to a sheet whose rows all had
\* garbage or blank ID cells.
C15_Witness ==
    \E s \in Sessions :
        /\ outcome[s] = "success" /\ h[s].op = "add"
        /\ Len(h[s].grid0) = 2
        /\ ~IsDigits(h[s].grid0[2][IndexOf(LogHeaders, ID)])
        /\ log[Len(log)][IndexOf(LogHeaders, ID)] = <<"1">>
        /\ Len(log) = 3


C17_UniqueTemplateIds ==
    LET d == DataFrame(templates.grid)
    IN HasCol(d, template_id) =>
          \A i, j \in 1..Len(d.rows) :
              Cell(d, d.rows[i], template_id) = Cell(d, d.rows[j], template_id) => i = j


\* The step is one of session s's script.
StepOf(s) == <<pc[s], outcome[s], h[s]>> # <<pc'[s], outcome'[s], h'[s]>>

\* C18: a step that ends a mutation's handler ends it in success, in the
\* error state or (nothing selected) in a warning, never otherwise; a step
\* into the error state is the end of the handler and changes no sheet, so
\* that the failed call is not made again; and every handler that has begun
\* its store calls ends in success or in the error state.
C18_StoreFailuresCaught ==
    /\ [][\A s \in Sessions :
            /\ (StepOf(s) /\ pc'[s] = "idle" /\ h'[s].op \in {"add", "del", "desc", "tmpl", "tdel"})
                  => outcome'[s] \in {"success", "error", "warning"}
            /\ (StepOf(s) /\ outcome'[s] = "error")
                  => /\ pc'[s] = "idle"
                     /\ <<log', master', templates'>> = <<log, master, templates>>]_vars
    /\ \A s \in Sessions :
          (pc[s] # "idle") ~> (pc[s] = "idle" /\ outcome[s] \in {"success", "error"})

\* C18 witness: the update() of a delete failed after its clear(): the
\* handler is over, in the error state, and the sheet is as clear() left it.
C18_Witness ==
    \E s \in Sessions :
        /\ pc[s] = "idle" /\ outcome[s] = "error" /\ h[s].op = "del"
        /\ h[s].ids # {} /\ log = <<>>


\* C19: a delete request with nothing selected, of log rows or of
\* templates, ends in a warning within the step, with every sheet and the
\* cache as they were.
C19_EmptyDeleteIsNoOp ==
    [][\A s \in Sessions :
          (StepOf(s) /\ pc[s] = "idle" /\ pc'[s] = "idle"
                /\ h'[s].op \in {"del", "tdel"} /\ h'[s].ids = {} /\ h'[s].tids = {})
              => /\ outcome'[s] = "warning"
                 /\ <<log', master', templates'>> = <<log, master, templates>>
                 /\ cache' = cache]_vars

\* C19 witness: a template delete with nothing selected has ended in a
\* warning, the templates still stored and the session's cache still valid.
C19_Witness ==
    \E s \in Sessions :
        /\ outcome[s] = "warning" /\ h[s].op = "tdel" /\ h[s].tids = {}
        /\ Len(templates.grid) > 1
        /\ cache[s].valid


\* C20: a log delete none of whose selected ids is in the Training Log it
\* re-reads, a log with no data rows included, goes on to the clear and does
\* not end in an error.
C20_AbsentIdsStillReplace ==
    [][\A s \in Sessions :
          (StepOf(s) /\ pc[s] = "idle" /\ h'[s].op = "del" /\ h'[s].ids # {}
                /\ h'[s].ids \cap StoredIds(log) = {})
              => /\ pc'[s] = "del_clear"
                 /\ outcome'[s] # "error"]_vars


\* C21: when the write of a table rewrite fails after its clear, the handler
\* ends in an error with the table holding no row at all, header included;
\* the content the table had before the clear is not written back.
C21_FailedWriteLeavesTableEmpty ==
    [][\A s \in Sessions :
          /\ (pc[s] = "del_write" /\ StepOf(s) /\ outcome'[s] # "success")
                => (pc'[s] = "idle" /\ outcome'[s] = "error" /\ log' = <<>>)
          /\ (pc[s] = "desc_write" /\ StepOf(s) /\ outcome'[s] # "success")
                => (pc'[s] = "idle" /\ outcome'[s] = "error" /\ master' = <<>>)
          /\ (pc[s] = "tdel_write" /\ StepOf(s) /\ outcome'[s] # "success")
                => (pc'[s] = "idle" /\ outcome'[s] = "error" /\ templates'.grid = <<>>)]_vars

\* C21 witness: a log delete has ended in an error after its clear, and the
\* Training Log, which held data rows when the delete read it, is empty.
C21_Witness ==
    \E s \in Sessions :
        /\ pc[s] = "idle" /\ outcome[s] = "error" /\ h[s].op = "del"
        /\ Len(h[s].grid0) > 1
        /\ h[s].cur.rows # <<>>
        /\ log = <<>>


\* Session a has appended a row to the very grid session b's delete read, and
\* has started no handler since.
AppendedAfterRead(a, b) ==
    /\ a # b
    /\ h[a].op = "add" /\ outcome[a] = "success"
    /\ h[b].op = "del" /\ h[b].ids # {}
    /\ h[a].grid0 = h[b].grid0

\* C22: a row session a appends to the Training Log after session b's
\* re-read and before b's clear is wiped by that clear, b's write then puts
\* back rows of b's read only, and both sessions end in success.
C22_LastWriteWins ==
    [][\A a, b \in Sessions :
          /\ (AppendedAfterRead(a, b) /\ pc[b] = "del_clear" /\ pc'[b] = "del_write"
                    /\ log = Append(h[b].grid0, h[a].row))
                => (log' = <<>> /\ outcome'[a] = "success")
          /\ (AppendedAfterRead(a, b) /\ pc[b] = "del_write" /\ pc'[b] = "idle"
                    /\ log = <<>>)
                => /\ log' = update_data(read_current(h[b].grid0), h[b].ids)
                   /\ Len(log') <= Len(h[b].grid0)
                   /\ outcome'[a] = "success" /\ outcome'[b] = "success"]_vars

\* C22 witness: b's replace is complete and has kept a data row; the row a
\* appended in between is gone, and both sessions show a success.
C22_Witness ==
    \E a, b \in Sessions :
        /\ AppendedAfterRead(a, b)
        /\ pc[b] = "idle" /\ outcome[b] = "success"
        /\ log = update_data(read_current(h[b].grid0), h[b].ids)
        /\ Len(log) >= 2
        /\ Len(log) < Len(h[a].grid0) + 1


(***************************************************************************)
(* Template id allocation: one session saves a template on a Template      *)
(* Master whose last template_id cell is drawn from TidCells.               *)
(***************************************************************************)
TidCells ==
    {TMP \o <<"0", "0", "1">>, TMP \o <<"0", "0", "2">>, TMP \o <<"0", "0", "9">>,
     TMP \o <<"0", "9", "9">>, TMP \o <<"9", "9", "9">>, TMP \o <<"7">>,
     TMP, TMP \o TMP \o <<"1">>, <<"4">> \o TMP, <<"7">>, <<"x">>, <<>>}

SavedTemplate(tid) == <<tid, NewTemplateName, <<"1">>, Today>>

RECURSIVE TemplateGrids(_)
TemplateGrids(n) ==
    IF n = 0 THEN {<<TemplateHeaders>>}
    ELSE TemplateGrids(n - 1)
            \cup {Append(g, SavedTemplate(c)) :
                    g \in {m \in TemplateGrids(n - 1) : Len(m) = n}, c \in TidCells}

TidInit ==
    /\ log = InitLog
    /\ master = InitMaster
    /\ \/ templates = [exists |-> FALSE, grid |-> <<>>]
       \/ \E g \in TemplateGrids(MaxTemplates - 1) : templates = [exists |-> TRUE, grid |-> g]
    /\ cache = [s \in Sessions |-> NoCache]
    /\ pc = [s \in Sessions |-> "idle"]
    /\ outcome = [s \in Sessions |-> "none"]
    /\ h = [s \in Sessions |-> NoHandler]
    /\ hist = NoHist
    /\ ops = [s \in Sessions |-> 0]

TidNext ==
    \/ Solo(LoadCached("A"))
    \/ Solo(LoadFresh("A"))
    \/ Solo(CacheExpire("A"))
    \/ Solo(SaveTemplateUpTo("A", MaxNewTemplateNo))

SpecTid == TidInit /\ [][TidNext]_vars

\* The last template_id cell of a loaded snapshot.
LastTid(d) == Cell(d, d.rows[Len(d.rows)], template_id)

\* The text after the prefix TMP, or the whole id when it has no such prefix.
SuffixOf(tid) ==
    IF Len(tid) >= 3 /\ SubSeq(tid, 1, 3) = TMP THEN SubSeq(tid, 4, Len(tid)) ELSE tid

\* C23 as stated: TMP001 for an empty snapshot; else TMP and the numeric
\* suffix of the last template_id plus one, padded to three digits; and
\* when the suffix is no number, TMP and the count of templates plus one.
C23_NewTemplateId ==
    [][\A s \in Sessions :
          (pc[s] = "idle" /\ pc'[s] = "idle" /\ h'[s].op = "tmpl" /\ outcome'[s] = "success"
                /\ StepOf(s))
              => LET d == df(s).templates
                 IN h'[s].row[1] =
                       IF empty(d) THEN TMP \o <<"0", "0", "1">>
                       ELSE IF IsDigits(SuffixOf(LastTid(d)))
                            THEN TMP \o zero_pad3(ParseInt(SuffixOf(LastTid(d))) + 1)
                            ELSE TMP \o zero_pad3(Len(d.rows) + 1)]_vars

\* C23, for what the code parses: the last template_id is text, and what is
\* left of it once every "TMP" is taken out is a string of digits; any
\* other last cell, a numeric one included, gives the count plus one.
C23_NewTemplateIdParsed ==
    [][\A s \in Sessions :
          (pc[s] = "idle" /\ pc'[s] = "idle" /\ h'[s].op = "tmpl" /\ outcome'[s] = "success"
                /\ StepOf(s))
              => LET d == df(s).templates
                     rest == remove_TMP(LastTid(d))
                 IN /\ h'[s].row[1] =
                          IF empty(d) THEN TMP \o <<"0", "0", "1">>
                          ELSE IF ~IsDigits(LastTid(d)) /\ IsDigits(rest)
                               THEN TMP \o zero_pad3(ParseInt(rest) + 1)
                               ELSE TMP \o zero_pad3(Len(d.rows) + 1)
                    /\ Len(h'[s].row[1]) >= 6
                    /\ templates'.grid = Append(templates.grid, h'[s].row)]_vars

\* C23 witness: a template was saved after TMP099 and got a number of three
\* digits with no zero in front.
C23_Witness ==
    \E s \in Sessions :
        /\ pc[s] = "idle" /\ outcome[s] = "success" /\ h[s].op = "tmpl"
        /\ Len(templates.grid) = 3
        /\ templates.grid[2][1] = TMP \o <<"0", "9", "9">>
        /\ templates.grid[3][1] = TMP \o <<"1", "0", "0">>


(***************************************************************************)
(* The two places that decode a stored exercise_ids cell: the sidebar's    *)
(* template map (lines 152-159, 183-200) and the listing of saved          *)
(* templates (lines 701-717).                                              *)
(***************************************************************************)
\* lines 703-706
listing_split(ids_str) ==
    IF "|" \in Range(ids_str) THEN split(ids_str, "|") ELSE split(ids_str, ",")

\* lines 707-709: the ids get_exercise_names looks up
listing_ids(ids_str) ==
    [i \in 1..Len(listing_split(ids_str)) |-> normalize_id(listing_split(ids_str)[i])]

\* lines 186, 198-200: the ids the sidebar looks up for a template chosen
sidebar_ids(d, tname) ==
    [i \in 1..Len(template_map(d, tname)) |-> normalize_id(template_map(d, tname)[i])]

\* A template is chosen in the sidebar (lines 183-200).
SidebarTemplate(s) ==
    /\ Running(s)
    /\ \E tname \in template_options(df(s).templates) :
         EndHandler(s, "shown",
                    [NoHandler EXCEPT !.op = "side",
                                      !.sel = template_map(df(s).templates, tname),
                                      !.row = sidebar_ids(df(s).templates, tname)])
    /\ UNCHANGED <<log, master, templates, cache>>

\* The saved templates are listed (lines 716-717), one row at a time.
TemplateListing(s) ==
    /\ TemplatesShown(s)
    /\ HasCol(df(s).templates, exercise_ids)
    /\ \E i \in 1..Len(df(s).templates.rows) :
         LET ids_str == Cell(df(s).templates, df(s).templates.rows[i], exercise_ids)
         IN EndHandler(s, "shown",
                       [NoHandler EXCEPT !.op = "list",
                                         !.sel = listing_split(ids_str),
                                         !.row = listing_ids(ids_str)])
    /\ UNCHANGED <<log, master, templates, cache>>

\* Stored exercise_ids cells: pipe and legacy comma lists, ids with blanks
\* and ".0" artifacts around them, a lone delimiter, and the empty cell.
DecodeCells ==
    {<<>>, <<"1">>, <<"1", "|", "2">>, <<"2", "|", "1">>, <<"1", ",", "2">>,
     <<"E", "1", ",", "E", "2">>, <<"1", "2", ".", "0">>,
     <<"1", ".", "0", "|", "2", ".", "0">>, <<" ", "1", " ", "|", " ", "2", " ">>,
     <<"1", "|", "2", ",", "3">>, <<"1", ",">>, <<"|">>,
     <<"1", ".", "0", ".", "0">>, <<"1", " ", ".", "0">>,
     <<"2">>, <<"2", ",", "1">>, <<"E", "1", "|", "E", "2">>, <<"1", ".", "0">>,
     <<" ", "1">>, <<"1", "|">>, <<"1", ",", " ", "2">>}

DecodeInit ==
    /\ log = InitLog
    /\ master = InitMaster
    /\ \E cell \in DecodeCells :
          templates = [exists |-> TRUE,
                       grid |-> <<TemplateHeaders,
                                  <<TMP \o <<"0", "0", "1">>, NewTemplateName, cell, Today>> >>]
    /\ cache = [s \in Sessions |-> NoCache]
    /\ pc = [s \in Sessions |-> "idle"]
    /\ outcome = [s \in Sessions |-> "none"]
    /\ h = [s \in Sessions |-> NoHandler]
    /\ hist = NoHist
    /\ ops = [s \in Sessions |-> 0]

DecodeNext ==
    \/ Solo(LoadCached("A"))
    \/ Solo(LoadFresh("A"))
    \/ Solo(CacheExpire("A"))
    \/ Solo(SidebarTemplate("A"))
    \/ Solo(TemplateListing("A"))

SpecDecode == DecodeInit /\ [][DecodeNext]_vars

\* The exercise_ids cell of the one stored template, and its delimiter.
StoredCell == templates.grid[2][IndexOf(templates.grid[1], exercise_ids)]

DelimOf(cell) == IF "|" \in Range(cell) THEN "|" ELSE ","

SidebarShown == h["A"].op = "side" /\ outcome["A"] = "shown"

ListingShown == h["A"].op = "list" /\ outcome["A"] = "shown"

\* parts are the pieces of the cell between its delimiters, in order.
SplitsCell(parts, cell) ==
    /\ parts # <<>>
    /\ join(parts, DelimOf(cell)) = cell
    /\ \A i \in 1..Len(parts) : DelimOf(cell) \notin Range(parts[i])

\* ids are the parts, each trimmed and then rid of one trailing ".0".
NormalizedFrom(ids, parts) ==
    /\ Len(ids) = Len(parts)
    /\ \A i \in 1..Len(parts) :
          LET t == strip(parts[i])
          IN ids[i] = IF endswith(t, <<".", "0">>) THEN SubSeq(t, 1, Len(t) - 2) ELSE t

\* What both decode sites do with a cell that is not empty.
DecodesStoredCell ==
    (StoredCell # <<>> /\ (SidebarShown \/ ListingShown))
        => /\ SplitsCell(h["A"].sel, StoredCell)
           /\ NormalizedFrom(h["A"].row, h["A"].sel)
           /\ StoredCell = <<"E", "1", ",", "E", "2">>
                 => h["A"].row = <<<<"E", "1">>, <<"E", "2">>>>
           /\ StoredCell = <<"1", "2", ".", "0">> => h["A"].row = <<<<"1", "2">>>>
           /\ StoredCell = <<"1", "|", "2", ",", "3">>
                 => h["A"].row = <<<<"1">>, <<"2", ",", "3">>>>

\* C24 as stated: a cell is split on '|' when it holds one and else on ',',
\* each id is trimmed and rid of one trailing ".0", and the listing of
\* saved templates decodes every cell to the ids the sidebar decodes it to.
C24_DecodeSitesAgree ==
    /\ DecodesStoredCell
    /\ ListingShown => h["A"].row = sidebar_ids(DataFrame(templates.grid), NewTemplateName)


(***************************************************************************)
(* One session deleting from a Training Log whose ID cells are drawn from  *)
(* IdCells; store calls succeed.                                           *)
(***************************************************************************)
KeepNext ==
    \/ Solo(LoadCached("A"))
    \/ Solo(LoadFresh("A"))
    \/ Solo(CacheExpire("A"))
    \/ Solo(DeleteRead("A"))
    \/ Solo(DeleteClear("A"))
    \/ Solo(DeleteWrite("A"))

SpecKeep == AllocInit /\ [][KeepNext]_vars

\* The data rows of a grid whose ID, read as a number, is not in ids, as
\* the grid holds them and in its order.
KeptRows(grid, ids) ==
    LET k == IndexOf(grid[1], ID)
        Kept(r) == to_numeric(r[k]) \notin ids
    IN SelectSeq(Tail(grid), Kept)

\* C25: a log delete writes back the header it read and, cell for cell and
\* in their order, the rows it read whose ID is not among the ids to
\* delete, an ID cell that is blank or no number included.
C25_DeleteKeepsOtherRows ==
    [][\A s \in Sessions :
          (pc[s] = "del_write" /\ pc'[s] = "idle" /\ outcome'[s] = "success" /\ log = <<>>)
              => log' = <<h[s].grid0[1]>> \o KeptRows(h[s].grid0, h[s].ids)]_vars


(***************************************************************************)
(* normalize_id applied to a string, and again to its own result.          *)
(***************************************************************************)
IdChars == {"1", ".", "0", " "}

RECURSIVE IdStrings(_)
IdStrings(n) ==
    IF n = 0 THEN {<<>>}
    ELSE IdStrings(n - 1)
            \cup {Append(t, c) : t \in {u \in IdStrings(n - 1) : Len(u) = n - 1}, c \in IdChars}

NormalizeInit ==
    /\ log = InitLog
    /\ master = InitMaster
    /\ templates = [exists |-> FALSE, grid |-> <<>>]
    /\ cache = [s \in Sessions |-> NoCache]
    /\ pc = [s \in Sessions |-> "idle"]
    /\ outcome = [s \in Sessions |-> "none"]
    /\ \E val \in IdStrings(MaxIdLen) :
          h = [s \in Sessions |->
                 IF s = "A" THEN [NoHandler EXCEPT !.op = "normalize", !.sel = val]
                 ELSE NoHandler]
    /\ hist = NoHist
    /\ ops = [s \in Sessions |-> 0]

\* normalize_id(val)
Normalize ==
    /\ pc["A"] = "idle" /\ outcome["A"] = "none" /\ h["A"].op = "normalize"
    /\ h' = [h EXCEPT !["A"].row = <<normalize_id(h["A"].sel)>>]
    /\ pc' = [pc EXCEPT !["A"] = "normalized"]
    /\ UNCHANGED <<log, master, templates, cache, outcome, hist, ops>>

\* normalize_id of the value normalize_id returned
NormalizeAgain ==
    /\ pc["A"] = "normalized"
    /\ h' = [h EXCEPT !["A"].row = Append(@, normalize_id(h["A"].row[1]))]
    /\ pc' = [pc EXCEPT !["A"] = "idle"]
    /\ outcome' = [outcome EXCEPT !["A"] = "success"]
    /\ UNCHANGED <<log, master, templates, cache, hist, ops>>

NormalizeNext == Normalize \/ NormalizeAgain

SpecNormalize == NormalizeInit /\ [][NormalizeNext]_vars

\* C26: normalize_id applied to its own result gives that result again.
C26_NormalizeIdempotent ==
    (h["A"].op = "normalize" /\ outcome["A"] = "success")
        => h["A"].row[2] = h["A"].row[1]

====
